---- MODULE Spec2Model ----
(***************************************************************************)
(* State-machine model of src/src/index.tsx: the LoadApp panel of the      *)
(* HTML preview plugin.  The host (bitable.base) owns the active table and *)
(* the selection; LoadApp subscribes to selection changes in an effect,    *)
(* and every notification starts one execution of the async function       *)
(* handleCellClick, which suspends at each awaited accessor call.          *)
(*                                                                         *)
(* The user-visible strings of the source are Chinese; TLA+ strings are    *)
(* ASCII, so each message constant carries an English rendering and names  *)
(* the original in its comment.                                            *)
(***************************************************************************)
EXTENDS Integers, Sequences, FiniteSets, Bags, TLC

\* ------------------------------------------------------------------ bounds

\* Handler executions that may be in flight (suspended at an await) at once.
MaxHandlers == 2
\* Subscriptions the host may hold active at once (more than one only if a
\* teardown left one behind).
MaxSubs == 2
\* Most presses of the preview button in a behaviour.
MaxOpens == 2

\* Longest sequence drawn as a cell value in the normalization specification.
MaxLen == 2

\* --------------------------------------------------------------- JS values

\* A JavaScript value, as a record of one uniform shape.  kind is one of
\* "string", "number", "bigint", "null", "undefined", "array", "object".
Str(s) == [kind |-> "string", s |-> s, n |-> 0, items |-> <<>>, members |-> <<>>]
Num(n) == [kind |-> "number", s |-> "", n |-> n, items |-> <<>>, members |-> <<>>]
BigInt(n) == [kind |-> "bigint", s |-> "", n |-> n, items |-> <<>>, members |-> <<>>]
JsNull == [kind |-> "null", s |-> "", n |-> 0, items |-> <<>>, members |-> <<>>]
Undefined == [kind |-> "undefined", s |-> "", n |-> 0, items |-> <<>>, members |-> <<>>]
Arr(items) == [kind |-> "array", s |-> "", n |-> 0, items |-> items, members |-> <<>>]
\* members: the object's own properties in insertion order, each [k, v].
Obj(members) == [kind |-> "object", s |-> "", n |-> 0, items |-> <<>>, members |-> members]
Prop(k, v) == [k |-> k, v |-> v]

\* JavaScript truthiness (the operand test of !x and of x || y).
Truthy(v) ==
  CASE v.kind = "string" -> v.s # ""
    [] v.kind = "number" -> v.n # 0
    [] v.kind = "bigint" -> v.n # 0
    [] v.kind = "null" -> FALSE
    [] v.kind = "undefined" -> FALSE
    [] OTHER -> TRUE

\* typeof item === 'object' && item !== null
IsObjectLike(v) == v.kind \in {"object", "array"}

\* obj.key: the property's value, undefined when the object has none.
Member(obj, key) ==
  IF \E i \in DOMAIN obj.members : obj.members[i].k = key
  THEN obj.members[CHOOSE i \in DOMAIN obj.members : obj.members[i].k = key].v
  ELSE Undefined

Digit(d) ==
  CASE d = 0 -> "0" [] d = 1 -> "1" [] d = 2 -> "2" [] d = 3 -> "3" [] d = 4 -> "4"
    [] d = 5 -> "5" [] d = 6 -> "6" [] d = 7 -> "7" [] d = 8 -> "8" [] OTHER -> "9"

RECURSIVE NumToStr(_)
NumToStr(n) == IF n < 10 THEN Digit(n) ELSE NumToStr(n \div 10) \o Digit(n % 10)

\* String(v) for the primitives that reach it.
JsString(v) ==
  CASE v.kind = "string" -> v.s
    [] v.kind = "number" -> NumToStr(v.n)
    [] v.kind = "bigint" -> NumToStr(v.n)
    [] v.kind = "null" -> "null"
    [] OTHER -> "undefined"

\* JSON.stringify throws a TypeError on a BigInt anywhere in the value.
RECURSIVE JsonThrows(_)
JsonThrows(v) ==
  CASE v.kind = "bigint" -> TRUE
    [] v.kind = "array" -> \E i \in DOMAIN v.items : JsonThrows(v.items[i])
    [] v.kind = "object" -> \E i \in DOMAIN v.members : JsonThrows(v.members[i].v)
    [] OTHER -> FALSE

\* JSON.stringify(v) for a value it does not throw on.  The strings of the
\* model hold no quote, backslash or control character, so none is escaped.
RECURSIVE JsonStringify(_)
RECURSIVE JsonItems(_, _)
RECURSIVE JsonMembers(_, _)
JsonItems(items, i) ==
  IF i > Len(items) THEN ""
  ELSE (IF i > 1 THEN "," ELSE "")
       \o (IF items[i].kind = "undefined" THEN "null" ELSE JsonStringify(items[i]))
       \o JsonItems(items, i + 1)
JsonMembers(members, i) ==
  IF i > Len(members) THEN ""
  ELSE (IF i > 1 THEN "," ELSE "")
       \o "\"" \o members[i].k \o "\":" \o JsonStringify(members[i].v)
       \o JsonMembers(members, i + 1)
JsonStringify(v) ==
  CASE v.kind = "string" -> "\"" \o v.s \o "\""
    [] v.kind = "number" -> NumToStr(v.n)
    [] v.kind = "null" -> "null"
    [] v.kind = "array" -> "[" \o JsonItems(v.items, 1) \o "]"
    [] v.kind = "object" -> "{" \o JsonMembers(v.members, 1) \o "}"
    [] OTHER -> "undefined"


\* ------------------------------------------------------- content normalization

\* contentItem.text || contentItem.html || JSON.stringify(item): the first
\* truthy operand.  IContentObject declares text and html as strings.
PickString(o) ==
  IF Truthy(Member(o, "text")) THEN JsString(Member(o, "text"))
  ELSE IF Truthy(Member(o, "html")) THEN JsString(Member(o, "html"))
  ELSE JsonStringify(o)

\* Whether evaluating that expression throws: only its last operand can.
PickThrows(o) ==
  /\ ~Truthy(Member(o, "text"))
  /\ ~Truthy(Member(o, "html"))
  /\ JsonThrows(o)

\* The callback of content.map(...).
ItemString(item) == IF IsObjectLike(item) THEN PickString(item) ELSE JsString(item)

RECURSIVE JoinItems(_, _)
JoinItems(items, i) ==
  IF i > Len(items) THEN "" ELSE ItemString(items[i]) \o JoinItems(items, i + 1)

\* Whether the normalization step throws on this cell value.
NormalizeThrows(content) ==
  CASE content.kind = "array" ->
         \E i \in DOMAIN content.items :
           IsObjectLike(content.items[i]) /\ PickThrows(content.items[i])
    [] content.kind = "object" -> PickThrows(content)
    [] OTHER -> FALSE

\* htmlString as computed from a cell value on which the step does not throw.
Normalize(content) ==
  CASE content.kind = "array" -> JoinItems(content.items, 1)
    [] content.kind = "object" -> PickString(content)
    [] OTHER -> JsString(IF Truthy(content) THEN content ELSE Str(""))

\* The TypeError JSON.stringify raises.
JsonTypeError == [isError |-> TRUE, message |-> "Do not know how to serialize a BigInt"]

\* ------------------------------------------------------------------- the host

\* null / undefined where an identifier is expected.
Null == "null"

Tables == {"tblA", "tblB"}

\* The host's schema: every field with its type tag and display name.
Fields ==
  { [id |-> "fldBody", tableId |-> "tblA", type |-> "Text", name |-> "Body"],
    [id |-> "fldCount", tableId |-> "tblA", type |-> "Number", name |-> "Count"],
    [id |-> "fldNotes", tableId |-> "tblB", type |-> "Text", name |-> "Notes"] }

NoMeta == [id |-> Null, tableId |-> Null, type |-> Null, name |-> ""]

HasField(t, f) == \E m \in Fields : m.id = f /\ m.tableId = t

\* table.getFieldMetaById(fieldId), for a field the table has.
FieldMetaOf(t, f) == CHOOSE m \in Fields : m.id = f /\ m.tableId = t

\* getSelection() may resolve to nothing at all.
NoSelection == [present |-> FALSE, tableId |-> Null, recordId |-> Null, fieldId |-> Null]

Sel(t, r, f) == [present |-> TRUE, tableId |-> t, recordId |-> r, fieldId |-> f]

\* What the user can have selected: nothing, a whole column, a whole row, a cell.
Selections ==
  { NoSelection,
    Sel("tblA", Null, "fldBody"),
    Sel("tblA", "rec1", Null),
    Sel("tblA", "rec1", "fldBody"),
    Sel("tblA", "rec1", "fldCount"),
    Sel("tblB", "rec1", "fldNotes") }

\* Cell values field.getValue may resolve to.  The host owns the cells and the
\* panel keeps no copy, so any of them may be there when the call resolves.
CellValues ==
  { JsNull,
    Str(""),
    Str("<b>x</b>"),
    Arr(<<Obj(<<Prop("text", Str("a"))>>), Obj(<<Prop("text", Str("b"))>>)>>),
    Arr(<<>>),
    Obj(<<Prop("html", Str("<b>x</b>"))>>),
    Obj(<<Prop("id", BigInt(7))>>) }

\* What a rejected accessor call can be rejected with: an Error, or a value
\* that is not an Error.
Rejections ==
  { [isError |-> TRUE, message |-> "host unavailable"],
    [isError |-> FALSE, message |-> ""] }

FieldNotFound == [isError |-> TRUE, message |-> "field not found"]

NoError == [isError |-> FALSE, message |-> "none"]

\* ---------------------------------------------------------------- the panel

\* useState('...') initial message (source: "正在加载表格信息...").
InitInfo == "Loading table info..."
\* source: "请选择文本类型的单元格"
NonTextMsg == "Please select a text-type cell"
\* source: "单元格内容为空"
EmptyMsg == "Cell content is empty"
\* source: `正在预览 ${fieldMeta.name} 字段的HTML内容`
PreviewMsg(name) == "Previewing HTML content of field " \o name
\* source: `预览失败: ${error instanceof Error ? error.message : '未知错误'}`
FailMsg(error) ==
  "Preview failed: " \o (IF error.isError THEN error.message ELSE "unknown error")

VARIABLES
  activeTable,  \* host: the active table
  selection,    \* host: the current selection
  subs,         \* host: the selection-change subscriptions that are active
  mounted,      \* the effect of LoadApp is in place (set up, not yet cleaned up)
  off,          \* the unsubscribe handle the effect's cleanup closes over, with
                \* the number of times it has been called
  inflight,     \* bag of handleCellClick executions suspended at an await
  info,         \* useState: status message
  alertType,    \* useState: status severity
  htmlContent,  \* useState: content
  view,         \* what the last render of LoadApp returned
  last,         \* the handleCellClick execution that finished most recently
  norm,         \* one application of the content normalization to a drawn value
  opens         \* the browser: the outcome of every window.open call, in order

host == <<activeTable, selection, subs>>
ui == <<info, alertType, htmlContent>>
vars == <<activeTable, selection, subs, mounted, off,
          inflight, info, alertType, htmlContent, view, last, norm, opens>>

\* What LoadApp and handleCellClick never touch.
aside == <<norm, opens>>

\* ------------------------------------------------ HtmlPreview: sanitization

\* A node as the HTML parser builds it from the html prop: an element with its
\* attributes and text content, or a text node.
Attr(name, value) == [name |-> name, value |-> value]

El(tag, attrs, text) == [tag |-> tag, attrs |-> attrs, text |-> text]

Text(text) == El("#text", <<>>, text)

\* Elements that have no content and no end tag.
VoidTags == {"img", "embed", "link"}

\* The documents drawn as the html prop: plain markup; a script element after
\* body content; an inline event handler; an element outside the allow-list;
\* a link with rel next to a style element.
Documents ==
  { "<b>x</b>",
    "<p>t</p><script>s()</script>",
    "<img src=\"u\" onerror=\"e()\">",
    "<embed src=\"u\">ok",
    "<a href=\"u\" rel=\"r\">l</a><style>p{}</style>" }

\* The body nodes the parser builds; a string without markup is one text node.
Parse(html) ==
  CASE html = "<b>x</b>" -> <<El("b", <<>>, "x")>>
    [] html = "<p>t</p><script>s()</script>" ->
         <<El("p", <<>>, "t"), El("script", <<>>, "s()")>>
    [] html = "<img src=\"u\" onerror=\"e()\">" ->
         <<El("img", <<Attr("src", "u"), Attr("onerror", "e()")>>, "")>>
    [] html = "<embed src=\"u\">ok" ->
         <<El("embed", <<Attr("src", "u")>>, ""), Text("ok")>>
    [] html = "<a href=\"u\" rel=\"r\">l</a><style>p{}</style>" ->
         <<El("a", <<Attr("href", "u"), Attr("rel", "r")>>, "l"),
           El("style", <<>>, "p{}")>>
    [] OTHER -> <<Text(html)>>

\* USE_PROFILES: {html: true}: the tags and attributes of the html profile
\* (those the drawn documents can meet).
HtmlProfileTags == {"#text", "a", "b", "div", "img", "p", "span", "table"}

HtmlProfileAttrs == {"alt", "class", "href", "src", "title"}

\* ADD_TAGS as it would be without 'script'.
AddTagsWithoutScript == {"link", "style"}

\* ADD_TAGS: ['script', 'link', 'style']
AddTags == {"script", "link", "style"}

\* ADD_ATTR: ['src', 'href', 'rel', 'type']
AddAttr == {"src", "href", "rel", "type"}

AllowedTags == HtmlProfileTags \cup AddTags

AllowedAttrs == HtmlProfileAttrs \cup AddAttr

RECURSIVE KeepAttrs(_, _)
KeepAttrs(attrs, i) ==
  IF i > Len(attrs) THEN <<>>
  ELSE (IF attrs[i].name \in AllowedAttrs THEN <<attrs[i]>> ELSE <<>>)
         \o KeepAttrs(attrs, i + 1)

\* The allow-list filter: an element whose tag is not allowed is removed, an
\* allowed element keeps its allowed attributes only.
RECURSIVE KeepNodes(_, _)
KeepNodes(nodes, i) ==
  IF i > Len(nodes) THEN <<>>
  ELSE (IF nodes[i].tag \in AllowedTags
        THEN <<[nodes[i] EXCEPT !.attrs = KeepAttrs(@, 1)]>>
        ELSE <<>>)
         \o KeepNodes(nodes, i + 1)

RECURSIVE SerializeAttrs(_, _)
SerializeAttrs(attrs, i) ==
  IF i > Len(attrs) THEN ""
  ELSE " " \o attrs[i].name \o "=\"" \o attrs[i].value \o "\""
         \o SerializeAttrs(attrs, i + 1)

SerializeNode(n) ==
  IF n.tag = "#text" THEN n.text
  ELSE "<" \o n.tag \o SerializeAttrs(n.attrs, 1) \o ">"
         \o (IF n.tag \in VoidTags THEN "" ELSE n.text \o "</" \o n.tag \o ">")

RECURSIVE Serialize(_, _)
Serialize(nodes, i) ==
  IF i > Len(nodes) THEN ""
  ELSE SerializeNode(nodes[i]) \o Serialize(nodes, i + 1)

\* DOMPurify.sanitize(html, {...}) with WHOLE_DOCUMENT: true and a string
\* returned: the filtered nodes, serialized inside a whole document.
Sanitize(html) ==
  "<html><head></head><body>" \o Serialize(KeepNodes(Parse(html), 1), 1)
    \o "</body></html>"

\* fullHtml: the synthetic document around cleanHtml (the fixed style block
\* and the meta tags are abridged; the title is "HTML预览" in the source).
FullHtml(cleanHtml) ==
  "<!DOCTYPE html><html><head><meta charset=\"utf-8\"><title>HTML preview</title>"
    \o "<style>img{max-width:100%}table{width:100%}</style></head>"
    \o "<body><div class=\"content\">" \o cleanHtml \o "</div></body></html>"

\* ------------------------------------------------------------ LoadApp: render

\* Render as it would be if the card followed the severity, not the content.
RenderByStatus(message, type, content) ==
  [ alert |-> [message |-> message, type |-> type],
    card |-> type = "success",
    html |-> content,
    srcDoc |-> IF type = "success" THEN Sanitize(content) ELSE "",
    emptyState |-> type # "success" ]

\* The JSX LoadApp returns: the alert, the preview card (with the html handed
\* to HtmlPreview, and the srcDoc HtmlPreview gives its iframe: cleanHtml) and
\* the empty-state prompt.
Render(message, type, content) ==
  [ alert |-> [message |-> message, type |-> type],
    card |-> content # "",
    html |-> content,
    srcDoc |-> IF content # "" THEN Sanitize(content) ELSE "",
    emptyState |-> ~(content # "") ]

\* One execution of handleCellClick: where it is suspended, its locals, the
\* accessor calls it has issued so far, and whether another execution has been
\* in flight together with it.
Started ==
  [ pc |-> "getActiveTable", table |-> Null, sel |-> NoSelection, meta |-> NoMeta,
    calls |-> <<"getActiveTable">>, overlapped |-> FALSE ]

\* No value has been drawn for normalization.
NoNorm == [input |-> Undefined, applied |-> FALSE, threw |-> FALSE, output |-> ""]

\* Before the effect has run there is no unsubscribe handle.
NoHandle == [id |-> 0, calls |-> 0]

NoExecution ==
  [ outcome |-> "none", sel |-> NoSelection, meta |-> NoMeta,
    content |-> Undefined, thrown |-> NoError, calls |-> <<>> ]

Init ==
  /\ activeTable = "tblA"
  /\ selection = NoSelection
  /\ subs = {}
  /\ mounted = FALSE
  /\ off = NoHandle
  /\ inflight = EmptyBag
  /\ info = InitInfo
  /\ alertType = "info"
  /\ htmlContent = ""
  /\ view = Render(InitInfo, "info", "")
  /\ last = NoExecution
  /\ norm = NoNorm
  /\ opens = <<>>

\* ------------------------------------------------- the effect: mount, teardown

\* The effect body runs: onSelectionChange(handleCellClick) creates a
\* subscription, one the host does not hold yet, and returns its unsubscribe
\* handle.
Mount ==
  /\ ~mounted
  /\ Cardinality(subs) < MaxSubs
  /\ LET id == CHOOSE i \in (1..MaxSubs) \ subs : \A j \in (1..MaxSubs) \ subs : i <= j
     IN /\ subs' = subs \cup {id}
        /\ off' = [id |-> id, calls |-> 0]
  /\ mounted' = TRUE
  /\ UNCHANGED <<activeTable, selection, inflight, ui, view, last, aside>>

\* Teardown as it would be if the cleanup returned without calling off().
TeardownWithoutOff ==
  /\ mounted
  /\ mounted' = FALSE
  /\ UNCHANGED <<activeTable, selection, subs, off, inflight, ui, view, last, aside>>

\* The effect's cleanup runs: off().  React keeps the component's state over
\* the teardown / re-mount of StrictMode, and nothing here cancels an
\* execution of handleCellClick that is suspended.
Teardown ==
  /\ mounted
  /\ subs' = subs \ {off.id}
  /\ off' = [off EXCEPT !.calls = @ + 1]
  /\ mounted' = FALSE
  /\ UNCHANGED <<activeTable, selection, inflight, ui, view, last, aside>>

\* ------------------------------------------------------ the selection handler

Copies(e, n) == IF n = 0 THEN EmptyBag ELSE [x \in {e} |-> n]

\* The executions of b, each noted as running together with another one.
Overlap(b) ==
  LET seen(e) == [e EXCEPT !.overlapped = TRUE]
  IN [x \in {seen(e) : e \in BagToSet(b)} |->
        CopiesIn(x, b) + CopiesIn([x EXCEPT !.overlapped = FALSE], b)]

\* The host changes the selection and notifies every active subscription; each
\* notified callback runs handleCellClick up to its first await.
SelectionChange(s) ==
  /\ BagCardinality(inflight) + Cardinality(subs) <= MaxHandlers
  /\ selection' = s
  /\ activeTable' = IF s.present THEN s.tableId ELSE activeTable
  /\ inflight' = LET b == inflight (+) Copies(Started, Cardinality(subs))
                 IN IF subs # {} /\ BagCardinality(b) > 1 THEN Overlap(b) ELSE b
  /\ UNCHANGED <<subs, mounted, off, ui, view, last, aside>>

\* The validity test as it would be if the record id were not tested.
SelectionInvalidFieldOnly(s) == ~s.present \/ s.fieldId = Null

\* !selection || !selection.recordId || !selection.fieldId
SelectionInvalid(s) == ~s.present \/ s.recordId = Null \/ s.fieldId = Null

\* The execution e goes on to its next await as e2.
Continue(e, e2) ==
  /\ inflight' = (inflight (-) SetToBag({e})) (+) SetToBag({e2})
  /\ UNCHANGED last

\* The execution e, its locals now those of e2, returns (or leaves its catch
\* block).
Finish(e, e2, outcome, content, thrown) ==
  /\ inflight' = inflight (-) SetToBag({e})
  /\ last' = [ outcome |-> outcome, sel |-> e2.sel, meta |-> e2.meta,
               content |-> content, thrown |-> thrown, calls |-> e2.calls ]

Issue(e, call) == [e EXCEPT !.pc = call, !.calls = Append(@, call)]

\* The three setters of a branch run with no await between them: one step.
WarnNonText ==
  /\ info' = NonTextMsg
  /\ alertType' = "warning"
  /\ htmlContent' = htmlContent

WarnEmpty ==
  /\ info' = EmptyMsg
  /\ alertType' = "warning"
  /\ htmlContent' = htmlContent

ShowPreview(fieldMeta, htmlString) ==
  /\ htmlContent' = htmlString
  /\ info' = PreviewMsg(fieldMeta.name)
  /\ alertType' = "success"

\* The catch block as it would be without setHtmlContent('').
ShowErrorKeepsContent(error) ==
  /\ info' = FailMsg(error)
  /\ alertType' = "error"
  /\ htmlContent' = htmlContent

ShowError(error) ==
  /\ info' = FailMsg(error)
  /\ alertType' = "error"
  /\ htmlContent' = ""

\* React renders LoadApp again with the state the setters left.
Rerender == view' = Render(info', alertType', htmlContent')

\* await bitable.base.getActiveTable() resolves.
ResolveActiveTable(e) ==
  /\ e.pc = "getActiveTable"
  /\ Continue(e, [Issue(e, "getSelection") EXCEPT !.table = activeTable])
  /\ UNCHANGED <<host, aside, mounted, off, ui, view>>

\* await bitable.base.getSelection() resolves; the selection is validated.
ResolveSelection(e) ==
  /\ e.pc = "getSelection"
  /\ LET e2 == [e EXCEPT !.sel = selection]
     IN IF SelectionInvalid(selection)
        THEN Finish(e, e2, "ignored", Undefined, NoError)
        ELSE Continue(e, Issue(e2, "getFieldMetaById"))
  /\ UNCHANGED <<host, aside, mounted, off, ui, view>>

\* The metadata step as it would be if the field handle were requested without
\* the type having been checked.
ResolveFieldMetaUnchecked(e) ==
  /\ e.pc = "getFieldMetaById"
  /\ HasField(e.table, e.sel.fieldId)
  /\ Continue(e, Issue([e EXCEPT !.meta = FieldMetaOf(e.table, e.sel.fieldId)],
                       "getField"))
  /\ UNCHANGED <<host, aside, mounted, off, ui, view>>

\* await table.getFieldMetaById(selection.fieldId) resolves; the type is checked.
ResolveFieldMeta(e) ==
  /\ e.pc = "getFieldMetaById"
  /\ HasField(e.table, e.sel.fieldId)
  /\ LET e2 == [e EXCEPT !.meta = FieldMetaOf(e.table, e.sel.fieldId)]
     IN IF e2.meta.type # "Text"
        THEN /\ WarnNonText
             /\ Rerender
             /\ Finish(e, e2, "nontext", Undefined, NoError)
        ELSE /\ Continue(e, Issue(e2, "getField"))
             /\ UNCHANGED <<ui, view>>
  /\ UNCHANGED <<host, aside, mounted, off>>

\* The field-handle step as it would be if the message and the severity of the
\* success branch were set before the cell value is awaited.
ResolveFieldWritesEarly(e) ==
  /\ e.pc = "getField"
  /\ Continue(e, Issue(e, "getValue"))
  /\ info' = PreviewMsg(e.meta.name)
  /\ alertType' = "success"
  /\ htmlContent' = htmlContent
  /\ Rerender
  /\ UNCHANGED <<host, aside, mounted, off>>

\* await table.getField(selection.fieldId) resolves.
ResolveField(e) ==
  /\ e.pc = "getField"
  /\ Continue(e, Issue(e, "getValue"))
  /\ UNCHANGED <<host, aside, mounted, off, ui, view>>

\* await field.getValue(selection.recordId) resolves with content; the rest of
\* the try block runs, and the catch block when normalization throws.
ResolveValue(e, content) ==
  /\ e.pc = "getValue"
  /\ IF ~Truthy(content)
     THEN /\ WarnEmpty
          /\ Finish(e, e, "empty", content, NoError)
     ELSE IF NormalizeThrows(content)
     THEN /\ ShowError(JsonTypeError)
          /\ Finish(e, e, "error", content, JsonTypeError)
     ELSE /\ ShowPreview(e.meta, Normalize(content))
          /\ Finish(e, e, "success", content, NoError)
  /\ Rerender
  /\ UNCHANGED <<host, aside, mounted, off>>

\* The awaited accessor call rejects: the catch block runs.
Reject(e, error) ==
  /\ ShowError(error)
  /\ Rerender
  /\ Finish(e, e, "error", Undefined, error)
  /\ UNCHANGED <<host, aside, mounted, off>>

\* Any of the five calls can fail in the host.
RejectCall(e, error) == Reject(e, error)

\* The table fetched first does not have the field of the selection fetched
\* second: the metadata call fails.
RejectFieldNotFound(e) ==
  /\ e.pc = "getFieldMetaById"
  /\ ~HasField(e.table, e.sel.fieldId)
  /\ Reject(e, FieldNotFound)

Next ==
  \/ Mount
  \/ Teardown
  \/ \E s \in Selections : SelectionChange(s)
  \/ \E e \in BagToSet(inflight) : ResolveActiveTable(e)
  \/ \E e \in BagToSet(inflight) : ResolveSelection(e)
  \/ \E e \in BagToSet(inflight) : ResolveFieldMeta(e)
  \/ \E e \in BagToSet(inflight) : ResolveField(e)
  \/ \E e \in BagToSet(inflight), content \in CellValues : ResolveValue(e, content)
  \/ \E e \in BagToSet(inflight), error \in Rejections : RejectCall(e, error)
  \/ \E e \in BagToSet(inflight) : RejectFieldNotFound(e)

Spec == Init /\ [][Next]_vars

\* The call the execution e is awaiting resolves or rejects.
Settle(e) ==
  \/ ResolveActiveTable(e)
  \/ ResolveSelection(e)
  \/ ResolveFieldMeta(e)
  \/ ResolveField(e)
  \/ \E content \in CellValues : ResolveValue(e, content)
  \/ \E error \in Rejections : RejectCall(e, error)
  \/ RejectFieldNotFound(e)

\* The host answers: a call that is awaited does not stay pending for ever.
FairSpec == Spec /\ WF_vars(\E e \in BagToSet(inflight) : Settle(e))

\* ------------------------------------- the normalization step, applied alone

\* Elements a sequence value is drawn from: objects with a text member, an html
\* member, both, neither; an empty text member; primitives.
NormElements ==
  { Obj(<<Prop("text", Str("a"))>>),
    Obj(<<Prop("text", Str("b"))>>),
    Obj(<<Prop("html", Str("<b>x</b>"))>>),
    Obj(<<Prop("type", Str("mention"))>>),
    Obj(<<Prop("type", Str("text")), Prop("text", Str(""))>>),
    Obj(<<Prop("text", Str("")), Prop("html", Str("<i>y</i>"))>>),
    Obj(<<Prop("id", BigInt(7))>>),
    Num(5),
    Str("c"),
    JsNull }

NormValues ==
  {Arr(items) : items \in UNION {[1..k -> NormElements] : k \in 0..MaxLen}}
    \cup {e \in NormElements : e.kind = "object"}
    \cup {Str("<b>x</b>"), Str("plain"), Num(5)}

NormInit ==
  /\ activeTable = "tblA"
  /\ selection = NoSelection
  /\ subs = {}
  /\ mounted = FALSE
  /\ off = NoHandle
  /\ inflight = EmptyBag
  /\ info = InitInfo
  /\ alertType = "info"
  /\ htmlContent = ""
  /\ view = Render(InitInfo, "info", "")
  /\ last = NoExecution
  /\ norm \in {[NoNorm EXCEPT !.input = v] : v \in NormValues}
  /\ opens = <<>>

\* Lines 152-168 run on the drawn value.
NormApply ==
  /\ ~norm.applied
  /\ norm' = [ input |-> norm.input,
               applied |-> TRUE,
               threw |-> NormalizeThrows(norm.input),
               output |-> IF NormalizeThrows(norm.input) THEN ""
                          ELSE Normalize(norm.input) ]
  /\ UNCHANGED <<host, mounted, off, inflight, ui, view, last, opens>>

NormSpec == NormInit /\ [][NormApply]_vars

\* ------------------------------------------- HtmlPreview: the preview action

\* window.open returned null (the popup was blocked).
NoWindow == [opened |-> FALSE, document |-> "", writes |-> 0, closed |-> FALSE]

\* handlePreview as it would be if it wrote into the window it opened before
\* whenever there is one.
HandlePreviewReusesWindow ==
  /\ view.card
  /\ Len(opens) < MaxOpens
  /\ opens' = IF opens # <<>> /\ opens[Len(opens)].opened
              THEN [opens EXCEPT ![Len(opens)] =
                      [@ EXCEPT !.document = @ \o FullHtml(view.srcDoc),
                                !.writes = @ + 1]]
              ELSE Append(opens, [ opened |-> TRUE,
                                   document |-> FullHtml(view.srcDoc),
                                   writes |-> 1,
                                   closed |-> TRUE ])
  /\ UNCHANGED <<host, mounted, off, inflight, ui, view, last, norm>>

\* The button is pressed and window.open('', '_blank') returns a new window:
\* fullHtml is built around the cleanHtml of the render the button belongs to,
\* written to the window's document, and the document is closed.  The window
\* is a local of handlePreview; nothing of it is kept.
HandlePreviewOpened ==
  /\ view.card
  /\ Len(opens) < MaxOpens
  /\ opens' = Append(opens, [ opened |-> TRUE,
                              document |-> FullHtml(view.srcDoc),
                              writes |-> 1,
                              closed |-> TRUE ])
  /\ UNCHANGED <<host, mounted, off, inflight, ui, view, last, norm>>

\* The button is pressed and window.open returns null: handlePreview returns.
HandlePreviewBlocked ==
  /\ view.card
  /\ Len(opens) < MaxOpens
  /\ opens' = Append(opens, NoWindow)
  /\ UNCHANGED <<host, mounted, off, inflight, ui, view, last, norm>>

\* One whole execution of handleCellClick, nothing interleaved, for the Text
\* cell (tblA, rec1, fldBody) whose value is the string html: it ends in the
\* success branch, and LoadApp renders HtmlPreview with html.
ShowDocument(html) ==
  /\ mounted
  /\ inflight = EmptyBag
  /\ selection' = Sel("tblA", "rec1", "fldBody")
  /\ activeTable' = "tblA"
  /\ ShowPreview(FieldMetaOf("tblA", "fldBody"), Normalize(Str(html)))
  /\ Rerender
  /\ last' = [ outcome |-> "success",
               sel |-> Sel("tblA", "rec1", "fldBody"),
               meta |-> FieldMetaOf("tblA", "fldBody"),
               content |-> Str(html),
               thrown |-> NoError,
               calls |-> <<"getActiveTable", "getSelection", "getFieldMetaById",
                           "getField", "getValue">> ]
  /\ UNCHANGED <<subs, mounted, off, inflight, norm, opens>>

\* The panel mounted, before any selection event.
PreviewInit ==
  /\ activeTable = "tblA"
  /\ selection = NoSelection
  /\ subs = {1}
  /\ mounted = TRUE
  /\ off = [id |-> 1, calls |-> 0]
  /\ inflight = EmptyBag
  /\ info = InitInfo
  /\ alertType = "info"
  /\ htmlContent = ""
  /\ view = Render(InitInfo, "info", "")
  /\ last = NoExecution
  /\ norm = NoNorm
  /\ opens = <<>>

PreviewNext ==
  \/ \E html \in Documents : ShowDocument(html)
  \/ HandlePreviewOpened
  \/ HandlePreviewBlocked

PreviewSpec == PreviewInit /\ [][PreviewNext]_vars

\* --------------------------------------------------------------- the claims

\* The last execution fetched a selection (its second call resolved).
FetchedSelection ==
  /\ last.outcome # "none"
  /\ (last.outcome = "error" => Len(last.calls) > 2)

\* A step in which an execution of handleCellClick ends.
ExecutionEnds == BagCardinality(inflight') < BagCardinality(inflight)

\* C1: when the execution that just completed selected a cell (record id and
\* field id present) of a field that is not Text, the severity is warning, the
\* message asks for a text-type cell, and the content is the empty string.
C1_NonTextClearsContent ==
  (last.outcome # "none" /\ last.sel.recordId # Null /\ last.sel.fieldId # Null
     /\ last.meta.type \notin {"Text", Null})
    => /\ alertType = "warning"
       /\ info = "Please select a text-type cell"
       /\ htmlContent = ""

\* C2: when the execution that just completed selected a Text field whose cell
\* value is empty or absent (falsy), the severity is warning, the message says
\* the cell is empty, and the content is the empty string.
C2_EmptyCellClearsContent ==
  (last.outcome = "empty" /\ last.meta.type = "Text" /\ ~Truthy(last.content))
    => /\ alertType = "warning"
       /\ info = "Cell content is empty"
       /\ htmlContent = ""

\* C3: when the execution that just completed selected a Text field, fetched a
\* non-empty cell value and no accessor call failed, the severity is success,
\* the message names the selected field, and the content is the normalization
\* of that cell value.
C3_TextCellPreviewed ==
  (last.meta.type = "Text" /\ Truthy(last.content)
     /\ last.thrown \notin (Rejections \cup {FieldNotFound}))
    => /\ alertType = "success"
       /\ info = "Previewing HTML content of field " \o last.meta.name
       /\ htmlContent = Normalize(last.content)

\* C4: when an awaited accessor call or the normalization step threw in the
\* execution that just completed, the severity is error, the message carries
\* the exception's message (the unknown-error text when the thrown value is not
\* an Error), and the content is the empty string.
C4_ThrowEndsInError ==
  last.thrown # NoError
    => /\ last.outcome = "error"
       /\ alertType = "error"
       /\ info = (IF last.thrown.isError
                  THEN "Preview failed: " \o last.thrown.message
                  ELSE "Preview failed: unknown error")
       /\ htmlContent = ""
       /\ view.emptyState

\* C4 witnesses: the thrown value is not an Error; the normalization threw.
C4_Witness ==
  /\ last.outcome = "error"
  /\ ~last.thrown.isError
  /\ info = "Preview failed: unknown error"

\* C5: an execution whose fetched selection is absent or lacks a record id or
\* a field id ends there: it issued no call after getSelection, and the step
\* in which it ends leaves message, severity and content unchanged.
C5_InvalidSelectionIgnored ==
  /\ []((FetchedSelection
          /\ (~last.sel.present \/ last.sel.recordId = Null \/ last.sel.fieldId = Null))
          => /\ last.outcome = "ignored"
             /\ last.calls = <<"getActiveTable", "getSelection">>)
  /\ [][(ExecutionEnds /\ last'.outcome = "ignored")
          => (info' = info /\ alertType' = alertType /\ htmlContent' = htmlContent
              /\ view' = view)]_vars

\* C5 witness: a selection without a field id was ignored while a preview from
\* an earlier event is on display.
C5_Witness ==
  /\ last.outcome = "ignored"
  /\ last.sel.present
  /\ last.sel.fieldId = Null
  /\ htmlContent # ""
  /\ alertType = "success"

\* C6: after the effect's cleanup has run (and until it is set up again), no
\* step writes the message, the severity or the content.
C6_NoWriteAfterTeardown ==
  [][~mounted => (info' = info /\ alertType' = alertType /\ htmlContent' = htmlContent)]_vars

\* C7: the subscription the effect created has its unsubscribe function called
\* exactly once, at the teardown that follows it: at most one subscription is
\* active; while mounted it is the one the cleanup holds, not yet released;
\* after a teardown none is active and the handle has been called once.
C7_SubscriptionReleasedOnce ==
  /\ Cardinality(subs) <= 1
  /\ mounted => (subs = {off.id} /\ off.calls = 0)
  /\ ~mounted => (subs = {} /\ off.calls = (IF off = NoHandle THEN 0 ELSE 1))

\* C7 witness: torn down, with the handle called once and nothing left active,
\* while an execution started before the teardown is still suspended.
C7_Witness ==
  /\ ~mounted
  /\ off.calls = 1
  /\ subs = {}
  /\ inflight # EmptyBag

\* What an execution's own data alone can determine of the state it writes:
\* the tuple section 4.1 of the specification gives for each branch.
TupleOf(x) ==
  CASE x.outcome = "nontext" -> <<"Please select a text-type cell", "warning", "">>
    [] x.outcome = "empty" -> <<"Cell content is empty", "warning", "">>
    [] x.outcome = "success" ->
         <<"Previewing HTML content of field " \o x.meta.name, "success",
           Normalize(x.content)>>
    [] OTHER ->
         <<"Preview failed: " \o (IF x.thrown.isError THEN x.thrown.message
                                  ELSE "unknown error"), "error", "">>

\* C8: after an execution that writes state completes, message, severity and
\* content are all three determined by that execution's fetched metadata and
\* cell value (or its exception); none retains a value from an earlier event.
C8_StateRebuiltPerEvent ==
  last.outcome \in {"nontext", "empty", "success", "error"}
    => <<info, alertType, htmlContent>> = TupleOf(last)

\* C9: exactly one of the preview card and the empty-state prompt is rendered;
\* the card if and only if the content is a non-empty string, the prompt if and
\* only if it is the empty string, whatever the message and the severity.
C9_DisplayFollowsContent ==
  /\ view.card <=> htmlContent # ""
  /\ view.emptyState <=> htmlContent = ""
  /\ view.card # view.emptyState
  /\ view.html = htmlContent
  /\ view.alert = [message |-> info, type |-> alertType]

\* C9 witness: the card is rendered under a severity that is not success.
C9_Witness ==
  /\ view.card
  /\ alertType = "warning"
  /\ htmlContent # ""

\* The reference the normalization is claimed to agree with: a plain string
\* unchanged; per element of a sequence (and for a single object) the text
\* member, else the html member, else the JSON rendering; the string coercion
\* for an element that is not an object.
HasMember(o, key) == \E i \in DOMAIN o.members : o.members[i].k = key

RefPick(o) ==
  IF HasMember(o, "text") THEN Member(o, "text").s
  ELSE IF HasMember(o, "html") THEN Member(o, "html").s
  ELSE JsonStringify(o)

RefItem(x) == IF x.kind = "object" THEN RefPick(x) ELSE JsString(x)

RECURSIVE RefJoin(_, _)
RefJoin(items, i) ==
  IF i > Len(items) THEN "" ELSE RefItem(items[i]) \o RefJoin(items, i + 1)

RefNormalize(v) ==
  CASE v.kind = "string" -> v.s
    [] v.kind = "array" -> RefJoin(v.items, 1)
    [] v.kind = "object" -> RefPick(v)
    [] OTHER -> JsString(v)

\* C10: for every drawn value the normalization does not throw and returns
\* what the reference gives.
C10_NormalizationAgrees ==
  norm.applied => (~norm.threw /\ norm.output = RefNormalize(norm.input))

\* C11: every step in which an execution ends leaves it with one of the five
\* outcomes of the handler (none escapes the try/catch), and when the state
\* before that step shows a warning or an error and the execution selected a
\* Text field, fetched a non-empty value and had no accessor call fail, the
\* state after it has severity success and the value's normalization as content.
C11_RecoversAfterFailure ==
  [][ExecutionEnds
       => /\ last'.outcome \in {"ignored", "nontext", "empty", "success", "error"}
          /\ (alertType \in {"warning", "error"}
                /\ last'.meta.type = "Text" /\ Truthy(last'.content)
                /\ last'.thrown \notin (Rejections \cup {FieldNotFound}))
               => /\ alertType' = "success"
                  /\ htmlContent' = Normalize(last'.content)]_vars

C13_LastResolvedWins ==
  [][\A e \in BagToSet(inflight) :
       (e.overlapped /\ BagCardinality(inflight) = 1 /\ ExecutionEnds
          /\ last'.outcome \in {"nontext", "empty", "success", "error"})
         => <<info', alertType', htmlContent'>> = TupleOf(last')]_vars

\* The order in which handleCellClick awaits the host.
CallOrder ==
  <<"getActiveTable", "getSelection", "getFieldMetaById", "getField", "getValue">>

\* The calls are the first ones of the order, one after the other.
InOrder(calls) ==
  /\ Len(calls) <= Len(CallOrder)
  /\ calls = SubSeq(CallOrder, 1, Len(calls))

\* C14: the calls an execution has issued are an initial part of the order
\* active table, selection, field metadata, field handle, cell value, and a
\* suspended execution waits for the one it issued last; the field metadata
\* has been requested only with a selection that has a record id and a field
\* id, the field handle and the cell value only with a field whose fetched type
\* is Text; an execution that met another type issued nothing after the
\* metadata call.
C14_CallsSequentialAndGuarded ==
  /\ \A e \in BagToSet(inflight) :
       /\ e.calls # <<>>
       /\ InOrder(e.calls)
       /\ e.pc = e.calls[Len(e.calls)]
       /\ Len(e.calls) >= 3
            => (e.sel.present /\ e.sel.recordId # Null /\ e.sel.fieldId # Null)
       /\ Len(e.calls) >= 4 => e.meta.type = "Text"
  /\ last.outcome # "none"
       => /\ last.calls # <<>>
          /\ InOrder(last.calls)
          /\ Len(last.calls) >= 3
               => (last.sel.present /\ last.sel.recordId # Null
                     /\ last.sel.fieldId # Null)
          /\ Len(last.calls) >= 4 => last.meta.type = "Text"
          /\ last.outcome = "nontext" => Len(last.calls) = 3
          /\ last.outcome \in {"empty", "success"} => Len(last.calls) = 5

\* C14 witness: an execution for a Number field ended at the type check while
\* another one, for a Text field, is waiting for the cell value.
C14_Witness ==
  /\ last.outcome = "nontext"
  /\ last.meta.type = "Number"
  /\ last.calls = <<"getActiveTable", "getSelection", "getFieldMetaById">>
  /\ \E e \in BagToSet(inflight) : e.pc = "getValue" /\ e.calls = CallOrder

\* C15: every press makes exactly one window.open call and leaves the outcome
\* of every earlier call as it was; a window that was opened has had the
\* synthetic document around a sanitized string written to it once and its
\* document closed; a call that returned no window has had nothing written;
\* a press changes nothing in the panel (no reference to the window is kept);
\* and however many windows were opened before, the next press opens one more
\* (only the bound of the model ends this).
C15_OneWindowPerPress ==
  /\ [](\A i \in DOMAIN opens :
          IF opens[i].opened
          THEN /\ opens[i].writes = 1
               /\ opens[i].closed
               /\ \E html \in Documents : opens[i].document = FullHtml(Sanitize(html))
          ELSE /\ opens[i].writes = 0
               /\ opens[i].document = ""
               /\ ~opens[i].closed)
  /\ [][opens' # opens
          => /\ Len(opens') = Len(opens) + 1
             /\ SubSeq(opens', 1, Len(opens)) = opens
             /\ UNCHANGED <<info, alertType, htmlContent, view, subs, mounted, off>>]_vars
  /\ []((view.card /\ Len(opens) < MaxOpens) => ENABLED HandlePreviewOpened)

\* C15 witness: two presses opened two windows holding different documents,
\* the first one as it was written.
C15_Witness ==
  /\ Len(opens) = 2
  /\ opens[1].opened /\ opens[1].closed /\ opens[1].writes = 1
  /\ opens[2].opened /\ opens[2].closed /\ opens[2].writes = 1
  /\ opens[1].document # opens[2].document

\* C16: in every reachable state, if the severity is error then the content is
\* the empty string, and the render shows the empty-state prompt, not the card.
C16_ErrorHasNoContent ==
  alertType = "error"
    => /\ htmlContent = ""
       /\ ~view.card
       /\ view.emptyState
       /\ view.srcDoc = ""

\* C16 witness: an execution ended in the catch block with an Error while
\* another execution is still suspended.
C16_Witness ==
  /\ alertType = "error"
  /\ last.outcome = "error"
  /\ last.thrown.isError
  /\ htmlContent = ""
  /\ inflight # EmptyBag

\* C17: in every reachable state, if the severity is success then the content
\* is a non-empty string.
C17_SuccessHasContent ==
  alertType = "success" => htmlContent # ""

C19_ReadsFromSelectionsTable ==
  \A e \in BagToSet(inflight) :
    e.pc \in {"getFieldMetaById", "getField", "getValue"}
      => e.table = e.sel.tableId

====
